---------------------------- MODULE Spec2Model ----------------------------
(***************************************************************************)
(* SPADE generator (gaugan/models/spade_generators/spade_generator.py).    *)
(*                                                                         *)
(* Tensors are modelled by their shape [b, c, h, w]; a raised exception is *)
(* the value Raised.  Every handler (__init__, forward,                    *)
(* remove_spectral_norm) is one atomic action: the generator is used with  *)
(* exclusive access.  Each handler records what it did (the modules it     *)
(* created, the steps it ran, the blocks it visited) so that orderings can *)
(* be stated over states.                                                  *)
(***************************************************************************)
EXTENDS Integers, Sequences, FiniteSets, TLC

VARIABLES gens, blk, calls

vars == <<gens, blk, calls>>

-----------------------------------------------------------------------------
(* Bounds of the model *)

MaxCalls == 2
MaxNgf == 3
MaxBatch == 2
MaxCropExp == 8
MaxCh == 3

Modes == {"normal", "more", "most", "huge"}

\* crop sizes: 2^e and 3 * 2^(e-1) for e = 4 .. MaxCropExp (16, 24, ..., 256, 384)
CropSizes == {2^e : e \in 4..MaxCropExp} \cup {3 * 2^(e - 1) : e \in 4..MaxCropExp}

\* aspect ratios as exact fractions <<p, q>> meaning p/q
AspectRatios == {<<1, 2>>, <<1, 1>>, <<3, 2>>, <<2, 1>>}

\* opt.norm_G as the sequence of its tokens
NormGs == { <<"spectral", "spade", "instance", "3x3">>,
            <<"spade", "batch", "3x3">> }

SemanticNcs == {2}

-----------------------------------------------------------------------------
(* Tensors and library layers *)

Raised == [ok |-> FALSE, b |-> 0, c |-> 0, h |-> 0, w |-> 0]

Tensor(b, c, h, w) == [ok |-> TRUE, b |-> b, c |-> c, h |-> h, w |-> w]

Min2(a, b) == IF a <= b THEN a ELSE b

\* Python round(): nearest integer, ties to the even one; n/d with d > 0
PyRound(n, d) ==
    LET fl == n \div d
        r  == n % d
    IN  IF 2 * r < d THEN fl
        ELSE IF 2 * r > d THEN fl + 1
        ELSE IF fl % 2 = 0 THEN fl ELSE fl + 1

\* "spectral" in opt.norm_G
HasSpectral(norm_G) == \E i \in 1..Len(norm_G) : norm_G[i] = "spectral"

\* opt.norm_G.replace("spectral", "")
StripSpectral(norm_G) == SelectSeq(norm_G, LAMBDA t : t # "spectral")

\* nn.Conv2d(cin, cout, kernel_size, padding, bias)
Conv2d(cin, cout, k, pad, bias) ==
    [cin |-> cin, cout |-> cout, k |-> k, pad |-> pad, bias |-> bias,
     tag |-> "Plain"]

\* torch.nn.utils.spectral_norm(conv)
spectral_norm(conv) == [conv EXCEPT !.tag = "SpectralNormalized"]

\* conv(x): stride 1
ConvForward(conv, x) ==
    IF ~x.ok \/ x.c # conv.cin THEN Raised
    ELSE LET h == x.h + 2 * conv.pad - conv.k + 1
             w == x.w + 2 * conv.pad - conv.k + 1
         IN  IF h < 1 \/ w < 1 THEN Raised
             ELSE Tensor(x.b, conv.cout, h, w)

\* SPADE(config_str, norm_nc, label_nc, nhidden)
SPADE(config_str, norm_nc, label_nc, nhidden) ==
    [config_str |-> config_str, norm_nc |-> norm_nc, label_nc |-> label_nc,
     nhidden |-> nhidden]

\* norm(x, seg): seg is resized to x's size; the result has x's shape
SPADEForward(norm, x, seg) ==
    IF ~x.ok \/ ~seg.ok \/ x.c # norm.norm_nc \/ seg.c # norm.label_nc
       \/ seg.b # x.b
    THEN Raised
    ELSE x

\* F.leaky_relu(x, 2e-1), torch.tanh(x): shape kept
Pointwise(x) == x

\* nn.Upsample(scale_factor=2)
UpsampleForward(x) ==
    IF ~x.ok THEN Raised ELSE Tensor(x.b, x.c, 2 * x.h, 2 * x.w)

\* F.interpolate(seg, size=(sh, sw)): sizes must be greater than 0
Interpolate(seg, sh, sw) ==
    IF ~seg.ok \/ sh < 1 \/ sw < 1 \/ seg.h < 1 \/ seg.w < 1 THEN Raised
    ELSE Tensor(seg.b, seg.c, sh, sw)


\* torch.nn.utils.remove_spectral_norm(conv): ValueError when conv carries no
\* spectral norm
torch_remove_spectral_norm(conv) ==
    IF conv.tag = "SpectralNormalized"
    THEN [ok |-> TRUE, conv |-> [conv EXCEPT !.tag = "Plain"]]
    ELSE [ok |-> FALSE, conv |-> conv]

-----------------------------------------------------------------------------
(* SPADEResnetBlock *)

\* fmiddle = min(fin, fout)
Fmiddle(fin, fout) == Min2(fin, fout)

\* mutant: the shortcut is learned only when the block narrows
LearnedShortcutGreater(fin, fout) == fin > fout

\* self.learned_shortcut = fin != fout
LearnedShortcut(fin, fout) == fin # fout

\* the convolutions __init__ creates, before the spectral wrapping
BlockConvs(fin, fout) ==
    LET fmiddle == Fmiddle(fin, fout)
        main == [conv_0 |-> Conv2d(fin, fmiddle, 3, 1, TRUE),
                 conv_1 |-> Conv2d(fmiddle, fout, 3, 1, TRUE)]
    IN  IF LearnedShortcut(fin, fout)
        THEN main @@ [conv_s |-> Conv2d(fin, fout, 1, 0, FALSE)]
        ELSE main

\* mutant: the shortcut convolution is left unwrapped
BlockWrapNoShortcut(convs, learned_shortcut, opt) ==
    IF HasSpectral(opt.norm_G)
    THEN [convs EXCEPT !.conv_0 = spectral_norm(convs.conv_0),
                       !.conv_1 = spectral_norm(convs.conv_1)]
    ELSE convs

\* if "spectral" in opt.norm_G: wrap conv_0, conv_1 and, if learned, conv_s
BlockWrap(convs, learned_shortcut, opt) ==
    IF HasSpectral(opt.norm_G)
    THEN LET c01 == [convs EXCEPT !.conv_0 = spectral_norm(convs.conv_0),
                                  !.conv_1 = spectral_norm(convs.conv_1)]
         IN  IF learned_shortcut
             THEN [c01 EXCEPT !.conv_s = spectral_norm(convs.conv_s)]
             ELSE c01
    ELSE convs

\* the normalization layers __init__ creates
BlockNorms(fin, fout, opt) ==
    LET fmiddle == Fmiddle(fin, fout)
        spade_config_str == StripSpectral(opt.norm_G)
        main == [norm_0 |-> SPADE(spade_config_str, fin, opt.semantic_nc, opt.ngf * 2),
                 norm_1 |-> SPADE(spade_config_str, fmiddle, opt.semantic_nc, opt.ngf * 2)]
    IN  IF LearnedShortcut(fin, fout)
        THEN main @@ [norm_s |-> SPADE(spade_config_str, fin, opt.semantic_nc, opt.ngf * 2)]
        ELSE main

\* SPADEResnetBlock(fin, fout, opt)
SPADEResnetBlock(fin, fout, opt) ==
    [fin |-> fin, fout |-> fout,
     learned_shortcut |-> LearnedShortcut(fin, fout),
     convs |-> BlockWrap(BlockConvs(fin, fout), LearnedShortcut(fin, fout), opt),
     norms |-> BlockNorms(fin, fout, opt)]

\* shortcut(x, seg): the result and the layers it ran
BlockShortcut(block, x, seg) ==
    IF block.learned_shortcut
    THEN [x |-> ConvForward(block.convs.conv_s,
                            SPADEForward(block.norms.norm_s, x, seg)),
          ops |-> <<"norm_s", "conv_s">>]
    ELSE [x |-> x, ops |-> <<>>]

\* actvn(x)
Actvn(x) == Pointwise(x)

\* x_s + dx
Add(x_s, dx) ==
    IF x_s.ok /\ dx.ok /\ x_s = dx THEN dx ELSE Raised

\* forward(x, seg)
BlockForward(block, x, seg) ==
    LET x_s == BlockShortcut(block, x, seg).x
        dx0 == ConvForward(block.convs.conv_0,
                           Actvn(SPADEForward(block.norms.norm_0, x, seg)))
        dx1 == ConvForward(block.convs.conv_1,
                           Actvn(SPADEForward(block.norms.norm_1, dx0, seg)))
    IN  Add(x_s, dx1)

\* mutant: the shortcut convolution is never unwrapped
BlockRemoveOrderNoShortcut(block) == <<"conv_0", "conv_1">>

\* the convolutions remove_spectral_norm unwraps, in order
BlockRemoveOrder(block) ==
    <<"conv_0", "conv_1">> \o (IF block.learned_shortcut THEN <<"conv_s">> ELSE <<>>)

RECURSIVE RemoveConvs(_, _)
RemoveConvs(block, names) ==
    IF names = <<>> THEN [ok |-> TRUE, block |-> block]
    ELSE LET r == torch_remove_spectral_norm(block.convs[Head(names)])
         IN  IF ~r.ok THEN [ok |-> FALSE, block |-> block]
             ELSE RemoveConvs([block EXCEPT !.convs[Head(names)] = r.conv],
                              Tail(names))

\* SPADEResnetBlock.remove_spectral_norm()
BlockRemoveSpectralNorm(block) == RemoveConvs(block, BlockRemoveOrder(block))

-----------------------------------------------------------------------------
(* SPADEGenerator *)

\* the stage count compute_latent_vector_size derives; 0 stands for the
\* else branch (ValueError)
NumUpLayers(mode) ==
    IF mode = "normal" THEN 5
    ELSE IF mode = "more" THEN 6
    ELSE IF mode = "most" THEN 7
    ELSE 0

\* mutant: the divisor ignores the mode
LatentWidthFixed(crop_size, num_up_layers) == crop_size \div (2 ^ 5)

\* sw = opt.crop_size // (2**num_up_layers)
LatentWidth(crop_size, num_up_layers) == crop_size \div (2 ^ num_up_layers)

\* mutant: int() instead of round()
LatentHeightTrunc(sw, aspect_ratio) == (sw * aspect_ratio[2]) \div aspect_ratio[1]

\* sh = round(sw / opt.aspect_ratio)
LatentHeight(sw, aspect_ratio) == PyRound(sw * aspect_ratio[2], aspect_ratio[1])

\* compute_latent_vector_size(opt)
compute_latent_vector_size(opt) ==
    LET num_up_layers == NumUpLayers(opt.num_upsampling_layers)
        sw == LatentWidth(opt.crop_size, num_up_layers)
    IN  IF num_up_layers = 0 THEN [ok |-> FALSE, sw |-> 0, sh |-> 0]
        ELSE [ok |-> TRUE, sw |-> sw, sh |-> LatentHeight(sw, opt.aspect_ratio)]

\* mutant: final_nc is not halved for "most"
FinalNcAlwaysNf(opt) == opt.ngf

\* final_nc: nf, or nf // 2 when the mode is "most"
FinalNc(opt) ==
    IF opt.num_upsampling_layers = "most" THEN opt.ngf \div 2 ELSE opt.ngf

\* mutant: the projection convolution is created before the mode is checked
InitOrderFcFirst(opt) ==
    <<"fc", "latent", "head_0", "G_middle_0", "G_middle_1",
      "up_0", "up_1", "up_2", "up_3">>
    \o (IF opt.num_upsampling_layers = "most" THEN <<"up_4">> ELSE <<>>)
    \o <<"conv_img", "up">>

\* the statements of __init__ in their order
InitOrder(opt) ==
    <<"latent", "fc", "head_0", "G_middle_0", "G_middle_1",
      "up_0", "up_1", "up_2", "up_3">>
    \o (IF opt.num_upsampling_layers = "most" THEN <<"up_4">> ELSE <<>>)
    \o <<"conv_img", "up">>

\* the module each statement of __init__ creates
MakeModule(name, opt) ==
    LET nf == opt.ngf
    IN  CASE name = "fc" -> Conv2d(opt.semantic_nc, 16 * nf, 3, 1, TRUE)
          [] name = "head_0" -> SPADEResnetBlock(16 * nf, 16 * nf, opt)
          [] name = "G_middle_0" -> SPADEResnetBlock(16 * nf, 16 * nf, opt)
          [] name = "G_middle_1" -> SPADEResnetBlock(16 * nf, 16 * nf, opt)
          [] name = "up_0" -> SPADEResnetBlock(16 * nf, 8 * nf, opt)
          [] name = "up_1" -> SPADEResnetBlock(8 * nf, 4 * nf, opt)
          [] name = "up_2" -> SPADEResnetBlock(4 * nf, 2 * nf, opt)
          [] name = "up_3" -> SPADEResnetBlock(2 * nf, 1 * nf, opt)
          [] name = "up_4" -> SPADEResnetBlock(1 * nf, nf \div 2, opt)
          [] name = "conv_img" -> Conv2d(FinalNc(opt), 3, 3, 1, TRUE)
          [] name = "up" -> [scale_factor |-> 2]

NoFwd == [result |-> "none", input |-> Raised, out |-> Raised, trace |-> <<>>]

NoRm == [result |-> "none", visited |-> <<>>]

\* a generator object before __init__ has run
NewGen(opt) ==
    [opt |-> opt, status |-> "unconstructed", created |-> <<>>, mods |-> <<>>,
     sw |-> 0, sh |-> 0, fwd |-> NoFwd, rm |-> NoRm, nfwd |-> 0, nrm |-> 0]

RECURSIVE RunInit(_, _)
RunInit(g, steps) ==
    IF steps = <<>> THEN [g EXCEPT !.status = "constructed"]
    ELSE IF Head(steps) = "latent"
    THEN LET l == compute_latent_vector_size(g.opt)
         IN  IF ~l.ok THEN [g EXCEPT !.status = "ValueError"]
             ELSE RunInit([g EXCEPT !.sw = l.sw, !.sh = l.sh], Tail(steps))
    ELSE RunInit([g EXCEPT !.created = Append(@, Head(steps)),
                           !.mods = @ @@ (Head(steps) :> MakeModule(Head(steps), g.opt))],
                 Tail(steps))

\* SPADEGenerator(opt)
GenInit(g) == RunInit(g, InitOrder(g.opt))

BlockNames == {"head_0", "G_middle_0", "G_middle_1", "up_0", "up_1", "up_2",
               "up_3", "up_4"}

\* mutant: the extra upsample runs for "most" only
ForwardStepsNoExtraUp(opt) ==
    <<"interpolate", "fc", "head_0", "up", "G_middle_0">>
    \o (IF opt.num_upsampling_layers = "most" THEN <<"up">> ELSE <<>>)
    \o <<"G_middle_1", "up", "up_0", "up", "up_1", "up", "up_2", "up", "up_3">>
    \o (IF opt.num_upsampling_layers = "most" THEN <<"up", "up_4">> ELSE <<>>)
    \o <<"leaky_relu", "conv_img", "tanh">>

\* the statements of forward in their order
ForwardSteps(opt) ==
    <<"interpolate", "fc", "head_0", "up", "G_middle_0">>
    \o (IF opt.num_upsampling_layers \in {"more", "most"} THEN <<"up">> ELSE <<>>)
    \o <<"G_middle_1", "up", "up_0", "up", "up_1", "up", "up_2", "up", "up_3">>
    \o (IF opt.num_upsampling_layers = "most" THEN <<"up", "up_4">> ELSE <<>>)
    \o <<"leaky_relu", "conv_img", "tanh">>

\* mutant: the blocks get the resized map
ForwardSegArgResized(g, seg) == Interpolate(seg, g.sh, g.sw)

\* the map forward hands to every residual block: seg = input
ForwardSegArg(g, seg) == seg

\* one statement of forward applied to x
ApplyStep(g, step, x, seg) ==
    IF step = "interpolate" THEN Interpolate(seg, g.sh, g.sw)
    ELSE IF step \in {"leaky_relu", "tanh"} THEN Pointwise(x)
    ELSE IF step \notin DOMAIN g.mods THEN Raised
    ELSE IF step = "up" THEN UpsampleForward(x)
    ELSE IF step \in BlockNames THEN BlockForward(g.mods[step], x, ForwardSegArg(g, seg))
    ELSE ConvForward(g.mods[step], x)

RECURSIVE RunForward(_, _, _, _, _)
RunForward(g, steps, x, seg, trace) ==
    IF steps = <<>>
    THEN [result |-> "ok", input |-> seg, out |-> x, trace |-> trace]
    ELSE LET y == ApplyStep(g, Head(steps), x, seg)
             e == [step |-> Head(steps), inp |-> x,
                   seg |-> IF Head(steps) \in BlockNames THEN ForwardSegArg(g, seg)
                           ELSE Raised,
                   out |-> y]
         IN  IF ~y.ok
             THEN [result |-> "RuntimeError", input |-> seg, out |-> Raised,
                   trace |-> Append(trace, e)]
             ELSE RunForward(g, Tail(steps), y, seg, Append(trace, e))

\* forward(input)
GenForward(g, input) == RunForward(g, ForwardSteps(g.opt), input, input, <<>>)

\* mutant: up_4 is never visited
RemoveOrderNoUp4(opt) ==
    <<"head_0", "G_middle_0", "G_middle_1", "up_0", "up_1", "up_2", "up_3">>

\* the blocks remove_spectral_norm visits, in order
RemoveOrder(opt) ==
    <<"head_0", "G_middle_0", "G_middle_1", "up_0", "up_1", "up_2", "up_3">>
    \o (IF opt.num_upsampling_layers = "most" THEN <<"up_4">> ELSE <<>>)

RECURSIVE RunRemove(_, _, _)
RunRemove(g, names, visited) ==
    IF names = <<>>
    THEN [g EXCEPT !.rm = [result |-> "ok", visited |-> visited]]
    ELSE IF Head(names) \notin DOMAIN g.mods
    THEN [g EXCEPT !.rm = [result |-> "AttributeError", visited |-> visited]]
    ELSE LET r == BlockRemoveSpectralNorm(g.mods[Head(names)])
             g1 == [g EXCEPT !.mods[Head(names)] = r.block]
         IN  IF ~r.ok
             THEN [g1 EXCEPT !.rm = [result |-> "ValueError",
                                     visited |-> Append(visited, Head(names))]]
             ELSE RunRemove(g1, Tail(names), Append(visited, Head(names)))

\* SPADEGenerator.remove_spectral_norm()
GenRemoveSpectralNorm(g) == RunRemove(g, RemoveOrder(g.opt), <<>>)

-----------------------------------------------------------------------------
(* State machine: generators *)

Opts ==
    [ngf : 1..MaxNgf, norm_G : NormGs, semantic_nc : SemanticNcs,
     num_upsampling_layers : Modes, crop_size : CropSizes,
     aspect_ratio : AspectRatios]

\* the semantic maps handed to forward
InputMaps(opt) ==
    {Tensor(b, opt.semantic_nc, hw[1], hw[2]) :
        b \in 1..MaxBatch, hw \in {<<opt.crop_size, opt.crop_size>>, <<7, 5>>}}

NoBlk == [status |-> "none"]

Init ==
    /\ gens \in [{1} -> {NewGen(o) : o \in Opts}]
    /\ blk = NoBlk
    /\ calls = 0

Construct(i) ==
    /\ gens[i].status = "unconstructed"
    /\ gens' = [gens EXCEPT ![i] = GenInit(gens[i])]
    /\ UNCHANGED <<blk, calls>>

Forward(i) ==
    /\ gens[i].status = "constructed"
    /\ calls < MaxCalls
    /\ \E input \in InputMaps(gens[i].opt) :
          gens' = [gens EXCEPT ![i] =
                      [gens[i] EXCEPT !.fwd = GenForward(gens[i], input),
                                      !.nfwd = @ + 1]]
    /\ calls' = calls + 1
    /\ UNCHANGED blk

RemoveSpectralNorm(i) ==
    /\ gens[i].status = "constructed"
    /\ calls < MaxCalls
    /\ gens' = [gens EXCEPT ![i] =
                   [GenRemoveSpectralNorm(gens[i]) EXCEPT !.nrm = @ + 1]]
    /\ calls' = calls + 1
    /\ UNCHANGED blk

DoConstruct == \E i \in DOMAIN gens : Construct(i)

DoForward == \E i \in DOMAIN gens : Forward(i)

DoRemoveSpectralNorm == \E i \in DOMAIN gens : RemoveSpectralNorm(i)

Next == DoConstruct \/ DoForward \/ DoRemoveSpectralNorm

Spec == Init /\ [][Next]_vars

-----------------------------------------------------------------------------
(* State machine: two generators of one crop size and aspect ratio *)

PairOpts(mode, crop_size, aspect_ratio) ==
    [ngf |-> MaxNgf, norm_G |-> <<"spectral", "spade", "instance", "3x3">>,
     semantic_nc |-> 2, num_upsampling_layers |-> mode,
     crop_size |-> crop_size, aspect_ratio |-> aspect_ratio]

InitPair ==
    /\ \E m1 \in Modes, m2 \in Modes, c \in CropSizes, a \in AspectRatios :
          /\ 0 < NumUpLayers(m1)
          /\ NumUpLayers(m1) < NumUpLayers(m2)
          /\ gens = (1 :> NewGen(PairOpts(m1, c, a))) @@ (2 :> NewGen(PairOpts(m2, c, a)))
    /\ blk = NoBlk
    /\ calls = 0

SpecPair == InitPair /\ [][Next]_vars

-----------------------------------------------------------------------------
(* State machine: one residual block on its own *)

BlockOpts == [ngf : 1..MaxNgf, norm_G : NormGs, semantic_nc : SemanticNcs]

NoRes == [x |-> Raised, ops |-> <<>>]

NewBlk(fin, fout, opt) ==
    [status |-> "unconstructed", fin |-> fin, fout |-> fout, opt |-> opt,
     block |-> <<>>, x |-> Raised, seg |-> Raised, fwd |-> Raised, sc |-> NoRes,
     rm |-> "none", nrm |-> 0]

\* the feature tensors and maps handed to a block
BlockInputs(b) ==
    {<<Tensor(n, b.fin, hw[1], hw[2]), Tensor(n, b.opt.semantic_nc, 8, 8)>> :
        n \in 1..MaxBatch, hw \in {<<1, 2>>, <<8, 8>>}}

InitBlock ==
    /\ gens = <<>>
    /\ blk \in {NewBlk(fin, fout, o) : fin \in 1..MaxCh, fout \in 1..MaxCh, o \in BlockOpts}
    /\ calls = 0

BlkConstruct ==
    /\ blk.status = "unconstructed"
    /\ blk' = [blk EXCEPT !.status = "constructed",
                          !.block = SPADEResnetBlock(blk.fin, blk.fout, blk.opt)]
    /\ UNCHANGED <<gens, calls>>

BlkForward ==
    /\ blk.status = "constructed"
    /\ calls < MaxCalls
    /\ \E xs \in BlockInputs(blk) :
          blk' = [blk EXCEPT !.x = xs[1], !.seg = xs[2],
                             !.fwd = BlockForward(blk.block, xs[1], xs[2]),
                             !.sc = BlockShortcut(blk.block, xs[1], xs[2])]
    /\ calls' = calls + 1
    /\ UNCHANGED gens

BlkRemoveSpectralNorm ==
    /\ blk.status = "constructed"
    /\ calls < MaxCalls
    /\ LET r == BlockRemoveSpectralNorm(blk.block)
       IN  blk' = [blk EXCEPT !.block = r.block,
                              !.rm = IF r.ok THEN "ok" ELSE "ValueError",
                              !.nrm = @ + 1]
    /\ calls' = calls + 1
    /\ UNCHANGED gens

NextBlock == BlkConstruct \/ BlkForward \/ BlkRemoveSpectralNorm

SpecBlock == InitBlock /\ [][NextBlock]_vars

-----------------------------------------------------------------------------
(* Vocabulary of the properties *)

ValidModes == {"normal", "more", "most"}

\* the stage count the specification gives for each mode
StagesOf(mode) == CASE mode = "normal" -> 5 [] mode = "more" -> 6 [] mode = "most" -> 7
                    [] OTHER -> 0

Constructed(g) == g.status = "constructed"

StepNames(trace) == [k \in 1..Len(trace) |-> trace[k].step]

UpCount(trace) == Cardinality({k \in 1..Len(trace) : trace[k].step = "up"})

OwnedBlocks(g) == DOMAIN g.mods \cap BlockNames

AllTagged(g, tag) ==
    \A n \in OwnedBlocks(g) : \A c \in DOMAIN g.mods[n].convs :
        g.mods[n].convs[c].tag = tag

ExpectedBlockOrder(mode) ==
    IF mode = "most"
    THEN <<"head_0", "G_middle_0", "G_middle_1", "up_0", "up_1", "up_2", "up_3", "up_4">>
    ELSE <<"head_0", "G_middle_0", "G_middle_1", "up_0", "up_1", "up_2", "up_3">>

-----------------------------------------------------------------------------
(* C1: forward's output shape *)

C1_ShapeOf(g) ==
    LET s == StagesOf(g.opt.num_upsampling_layers)
        f == g.fwd
    IN  /\ f.result = "ok"
        /\ f.out = Tensor(f.input.b, 3, g.sh * 2 ^ s, g.sw * 2 ^ s)
        /\ UpCount(f.trace) = s
        /\ \A k \in 1..Len(f.trace) :
              LET e == f.trace[k]
              IN  /\ e.step = "up" => e.out.h = 2 * e.inp.h /\ e.out.w = 2 * e.inp.w
                  /\ e.step \notin {"up", "interpolate"} =>
                        e.out.h = e.inp.h /\ e.out.w = e.inp.w
                  /\ e.step = "conv_img" => e.out.c = 3

\* C1 as stated: for every valid configuration (positive crop_size, ngf,
\* semantic_nc, aspect_ratio, a recognized mode) and every input map, forward
\* returns a tensor [B, 3, sh*2^stages, sw*2^stages], having applied exactly
\* stages 2x upsamplings and no other change of the spatial size.
C1_Original ==
    \A i \in DOMAIN gens :
        Constructed(gens[i]) /\ gens[i].nfwd > 0 => C1_ShapeOf(gens[i])

\* C1 amended: whenever forward returns, the base size is at least 1x1 and the
\* result is [B, 3, sh*2^stages, sw*2^stages] after exactly stages 2x
\* upsamplings, no other step changing the spatial size and the last
\* convolution giving 3 channels; with sw = 0 or sh = 0 forward raises at the
\* initial resize, before any layer ran.
C1_Shape ==
    \A i \in DOMAIN gens :
        LET g == gens[i]
        IN  Constructed(g) /\ g.nfwd > 0 =>
              /\ g.fwd.result = "ok" => g.sw >= 1 /\ g.sh >= 1 /\ C1_ShapeOf(g)
              /\ g.sw < 1 \/ g.sh < 1 =>
                    /\ g.fwd.result = "RuntimeError"
                    /\ StepNames(g.fwd.trace) = <<"interpolate">>

C1_Witness ==
    \E i \in DOMAIN gens :
        /\ Constructed(gens[i])
        /\ gens[i].opt.num_upsampling_layers = "more"
        /\ gens[i].opt.crop_size = 192
        /\ gens[i].fwd.result = "ok"
        /\ gens[i].fwd.out.w = 192

-----------------------------------------------------------------------------
(* C2: an unrecognized num_upsampling_layers *)

\* C2: construction with a mode other than normal, more, most fails with the
\* configuration error before any owned convolution or block is created and
\* before any tensor operation runs; with a recognized mode it never fails so.
C2_InvalidMode ==
    \A i \in DOMAIN gens :
        LET g == gens[i]
        IN  /\ g.status = "ValueError" =>
                 /\ g.opt.num_upsampling_layers \notin ValidModes
                 /\ g.created = <<>>
                 /\ DOMAIN g.mods = {}
                 /\ g.fwd = NoFwd /\ g.nfwd = 0
            /\ g.status = "constructed" =>
                 g.opt.num_upsampling_layers \in ValidModes
            /\ g.opt.num_upsampling_layers \in ValidModes => g.status # "ValueError"

C2_Witness ==
    \E i \in DOMAIN gens :
        gens[i].status = "ValueError" /\ gens[i].opt.num_upsampling_layers = "huge"

-----------------------------------------------------------------------------
(* C3: the base size *)

\* C3: stages are 5, 6, 7; sw is crop_size divided by 2^stages, truncated and
\* never an error; sh is sw / aspect_ratio rounded to the nearest integer
\* (a tie goes to the even one); sw * 2^stages is the largest multiple of
\* 2^stages that does not exceed crop_size, crop_size itself exactly when it
\* is divisible; crop_size 256, aspect ratio 1, "normal" gives sw = sh = 8 and
\* a 256 x 256 output.
C3_LatentSize ==
    \A i \in DOMAIN gens :
        LET g == gens[i]
            s == StagesOf(g.opt.num_upsampling_layers)
            c == g.opt.crop_size
            p == g.opt.aspect_ratio[1]
            q == g.opt.aspect_ratio[2]
            d == g.sh * p - g.sw * q
        IN  /\ g.opt.num_upsampling_layers \in ValidModes /\ g.status # "unconstructed"
               => Constructed(g)
            /\ Constructed(g) =>
                 /\ s \in {5, 6, 7}
                 /\ g.sw * 2 ^ s <= c /\ c < (g.sw + 1) * 2 ^ s
                 /\ (c % 2 ^ s = 0) <=> (g.sw * 2 ^ s = c)
                 /\ 2 * d <= p /\ -2 * d <= p
                 /\ (2 * d = p \/ -2 * d = p) => g.sh % 2 = 0
                 /\ g.fwd.result = "ok" => g.fwd.out.w = g.sw * 2 ^ s
                 /\ (c = 256 /\ p = q /\ g.opt.num_upsampling_layers = "normal") =>
                       /\ g.sw = 8 /\ g.sh = 8
                       /\ g.nfwd > 0 => g.fwd.result = "ok" /\ g.fwd.out.h = 256
                                        /\ g.fwd.out.w = 256

C3_Witness ==
    \E i \in DOMAIN gens :
        /\ gens[i].opt.crop_size = 256 /\ gens[i].opt.aspect_ratio = <<1, 1>>
        /\ gens[i].opt.num_upsampling_layers = "normal"
        /\ gens[i].sw = 8 /\ gens[i].sh = 8
        /\ gens[i].fwd.result = "ok" /\ gens[i].fwd.out.w = 256

-----------------------------------------------------------------------------
(* C4: two modes, one crop size *)

BothReturned == 
    /\ DOMAIN gens = {1, 2}
    /\ gens[1].fwd.result = "ok"
    /\ gens[2].fwd.result = "ok"

\* C4 as stated: two generators of the same crop_size and aspect_ratio and
\* different modes give outputs of different resolution.
C4_Original ==
    BothReturned =>
        <<gens[1].fwd.out.h, gens[1].fwd.out.w>> # <<gens[2].fwd.out.h, gens[2].fwd.out.w>>

\* C4 amended: the two modes differ in the number of 2x upsamplings forward
\* applies (5, 6, 7) and in the base width sw = crop_size // 2^stages, while
\* each output width is the largest multiple of that mode's 2^stages not
\* exceeding crop_size: the mode with more stages never gives the wider output,
\* and the two widths are equal exactly when crop_size mod 2^(larger stages) is
\* below 2^(smaller stages), in particular whenever crop_size is divisible by
\* the larger 2^stages.
C4_Resolutions ==
    BothReturned =>
        LET g1 == gens[1]
            g2 == gens[2]
            s1 == StagesOf(g1.opt.num_upsampling_layers)
            s2 == StagesOf(g2.opt.num_upsampling_layers)
            c  == g1.opt.crop_size
        IN  /\ s1 < s2
            /\ UpCount(g1.fwd.trace) = s1 /\ UpCount(g2.fwd.trace) = s2
            /\ g2.sw = g1.sw \div 2 ^ (s2 - s1)
            /\ g1.fwd.out.w = c - (c % 2 ^ s1)
            /\ g2.fwd.out.w = c - (c % 2 ^ s2)
            /\ g2.fwd.out.w <= g1.fwd.out.w
            /\ (g1.fwd.out.w = g2.fwd.out.w) <=> (c % 2 ^ s2 < 2 ^ s1)
            /\ c % 2 ^ s2 = 0 => g1.fwd.out.w = c /\ g2.fwd.out.w = c

C4_Witness ==
    /\ BothReturned
    /\ gens[1].opt.crop_size = 256
    /\ gens[1].opt.num_upsampling_layers = "normal"
    /\ gens[2].opt.num_upsampling_layers = "most"
    /\ gens[1].fwd.out = gens[2].fwd.out

-----------------------------------------------------------------------------
(* C5: the shortcut of a residual block *)

\* C5: fmiddle = min(fin, fout), learned_shortcut = (fin != fout); with
\* fin = fout the block owns exactly conv_0, conv_1, norm_0, norm_1 and the
\* shortcut returns its input; with fin != fout it also owns a bias-free 1x1
\* conv_s fin -> fout and norm_s, and the shortcut is conv_s(norm_s(x, seg)).
C5_Shortcut ==
    blk.status = "constructed" =>
        LET b == blk.block
            lo == IF blk.fin <= blk.fout THEN blk.fin ELSE blk.fout
        IN  /\ b.convs.conv_0.cin = blk.fin /\ b.convs.conv_0.cout = lo
            /\ b.convs.conv_1.cin = lo /\ b.convs.conv_1.cout = blk.fout
            /\ b.norms.norm_0.norm_nc = blk.fin /\ b.norms.norm_1.norm_nc = lo
            /\ b.learned_shortcut <=> blk.fin # blk.fout
            /\ blk.fin = blk.fout =>
                 /\ DOMAIN b.convs = {"conv_0", "conv_1"}
                 /\ DOMAIN b.norms = {"norm_0", "norm_1"}
                 /\ blk.x.ok => blk.sc.x = blk.x /\ blk.sc.ops = <<>>
            /\ blk.fin # blk.fout =>
                 /\ DOMAIN b.convs = {"conv_0", "conv_1", "conv_s"}
                 /\ DOMAIN b.norms = {"norm_0", "norm_1", "norm_s"}
                 /\ b.convs.conv_s.cin = blk.fin /\ b.convs.conv_s.cout = blk.fout
                 /\ b.convs.conv_s.k = 1 /\ ~b.convs.conv_s.bias
                 /\ b.norms.norm_s.norm_nc = blk.fin
                 /\ blk.x.ok =>
                       /\ blk.sc.ops = <<"norm_s", "conv_s">>
                       /\ blk.sc.x = Tensor(blk.x.b, blk.fout, blk.x.h, blk.x.w)
            /\ blk.x.ok => blk.fwd = Tensor(blk.x.b, blk.fout, blk.x.h, blk.x.w)

C5_Witness ==
    /\ blk.status = "constructed"
    /\ blk.fin < blk.fout
    /\ blk.x.ok
    /\ blk.sc.ops = <<"norm_s", "conv_s">>
    /\ blk.fwd.ok

-----------------------------------------------------------------------------
(* C6: the cascade of remove_spectral_norm *)

\* C6: on a generator built with "spectral" in norm_G, one call of
\* remove_spectral_norm visits every owned block in construction order, up_4
\* exactly when the mode is "most", accesses no block that does not exist, and
\* leaves every convolution of every owned block Plain.
C6_Cascade ==
    \A i \in DOMAIN gens :
        LET g == gens[i]
        IN  Constructed(g) /\ HasSpectral(g.opt.norm_G) /\ g.nrm = 1 =>
              /\ g.rm.result = "ok"
              /\ g.rm.visited = ExpectedBlockOrder(g.opt.num_upsampling_layers)
              /\ g.rm.visited = SelectSeq(g.created, LAMBDA n : n \in BlockNames)
              /\ {g.rm.visited[k] : k \in 1..Len(g.rm.visited)} = OwnedBlocks(g)
              /\ AllTagged(g, "Plain")

C6_Witness ==
    \E i \in DOMAIN gens :
        /\ Constructed(gens[i]) /\ HasSpectral(gens[i].opt.norm_G)
        /\ gens[i].opt.num_upsampling_layers = "most"
        /\ gens[i].nrm = 1 /\ gens[i].rm.result = "ok"
        /\ Len(gens[i].rm.visited) = 8

-----------------------------------------------------------------------------
(* C7: remove_spectral_norm on Plain convolutions *)

\* C7: a call of remove_spectral_norm on a generator whose convolutions are
\* all Plain has one outcome, the error (ValueError at the first block),
\* whether the reparameterization was never applied or was removed before; it
\* changes no module; and a call that ends in the error never leaves a partly
\* rewritten network behind.
C7_RemoveOnPlain ==
    [][\A i \in DOMAIN gens :
          LET g == gens[i]
              h == gens'[i]
          IN  Constructed(g) /\ h.nrm = g.nrm + 1 =>
                /\ AllTagged(g, "Plain") =>
                      /\ h.rm.result = "ValueError"
                      /\ h.rm.visited = <<"head_0">>
                      /\ h.mods = g.mods
                /\ h.rm.result = "ValueError" =>
                      /\ AllTagged(g, "Plain")
                      /\ h.mods = g.mods
                /\ h.rm.result \in {"ok", "ValueError"}]_vars

C7_Witness ==
    \E i \in DOMAIN gens :
        /\ Constructed(gens[i]) /\ HasSpectral(gens[i].opt.norm_G)
        /\ gens[i].nrm = 2 /\ gens[i].rm.result = "ValueError"
        /\ AllTagged(gens[i], "Plain")

-----------------------------------------------------------------------------
(* C8: the order of forward *)

ExpectedSteps(mode) ==
    IF mode = "normal"
    THEN <<"interpolate", "fc", "head_0", "up", "G_middle_0", "G_middle_1",
           "up", "up_0", "up", "up_1", "up", "up_2", "up", "up_3",
           "leaky_relu", "conv_img", "tanh">>
    ELSE IF mode = "more"
    THEN <<"interpolate", "fc", "head_0", "up", "G_middle_0", "up", "G_middle_1",
           "up", "up_0", "up", "up_1", "up", "up_2", "up", "up_3",
           "leaky_relu", "conv_img", "tanh">>
    ELSE <<"interpolate", "fc", "head_0", "up", "G_middle_0", "up", "G_middle_1",
           "up", "up_0", "up", "up_1", "up", "up_2", "up", "up_3", "up", "up_4",
           "leaky_relu", "conv_img", "tanh">>

EntryOf(trace, step) == trace[CHOOSE k \in 1..Len(trace) : trace[k].step = step]

\* C8: forward runs its steps in the one order its mode fixes (the extra bare
\* upsample before G_middle_1 exactly for "more" and "most", up_4 exactly for
\* "most"); every residual block gets the original, un-resized map; each step
\* gets the result of the step before it; in mode "normal" G_middle_1 runs at
\* the resolution of G_middle_0's output.
C8_Order ==
    \A i \in DOMAIN gens :
        LET g == gens[i]
            t == g.fwd.trace
            want == ExpectedSteps(g.opt.num_upsampling_layers)
        IN  Constructed(g) /\ g.nfwd > 0 =>
              /\ Len(t) <= Len(want)
              /\ StepNames(t) = SubSeq(want, 1, Len(t))
              /\ g.fwd.result = "ok" => StepNames(t) = want
              /\ \A k \in 1..Len(t) :
                    /\ t[k].step \in BlockNames => t[k].seg = g.fwd.input
                    /\ k > 1 => t[k].inp = t[k - 1].out
              /\ g.fwd.result = "ok" =>
                    LET m0 == EntryOf(t, "G_middle_0")
                        m1 == EntryOf(t, "G_middle_1")
                    IN  IF g.opt.num_upsampling_layers = "normal"
                        THEN m1.inp.h = m0.out.h /\ m1.inp.w = m0.out.w
                        ELSE m1.inp.h = 2 * m0.out.h /\ m1.inp.w = 2 * m0.out.w

C8_Witness ==
    \E i \in DOMAIN gens :
        /\ gens[i].fwd.result = "ok"
        /\ gens[i].opt.num_upsampling_layers = "most"
        /\ Len(gens[i].fwd.trace) = 20
        /\ gens[i].fwd.input.h # gens[i].sh

-----------------------------------------------------------------------------
(* C9: the channel widths *)

C9_Chain(g, last) ==
    LET w == g.opt.ngf
        m == g.mods
        most == g.opt.num_upsampling_layers = "most"
        t == g.fwd.trace
        Maps(n, a, b) == m[n].fin = a /\ m[n].fout = b
    IN  /\ m["fc"].cout = 16 * w
        /\ Maps("head_0", 16 * w, 16 * w)
        /\ Maps("G_middle_0", 16 * w, 16 * w)
        /\ Maps("G_middle_1", 16 * w, 16 * w)
        /\ Maps("up_0", 16 * w, 8 * w)
        /\ Maps("up_1", 8 * w, 4 * w)
        /\ Maps("up_2", 4 * w, 2 * w)
        /\ Maps("up_3", 2 * w, w)
        /\ ("up_4" \in DOMAIN m) <=> most
        /\ most => m["up_4"].fin = w /\ last = m["up_4"].fout
        /\ ~most => last = w
        /\ m["conv_img"].cin = last /\ m["conv_img"].cout = 3
        /\ \A k \in 1..Len(t) :
              /\ t[k].step \in BlockNames /\ t[k].out.ok =>
                    /\ m[t[k].step].fin = t[k].inp.c
                    /\ m[t[k].step].fout = t[k].out.c
                    /\ t[k].inp.c = t[k - 1].out.c
              /\ t[k].step = "conv_img" =>
                    /\ t[k].inp.c = last
                    /\ t[k - 1].out.c = last

\* C9 as stated: the widths chain 16w, 16w, 16w, 8w, 4w, 2w, 1w and, in mode
\* "most", the fifth block maps 1w to 0.5w, which the image convolution takes.
C9_Original ==
    \A i \in DOMAIN gens :
        Constructed(gens[i]) =>
            \E last \in 0..gens[i].opt.ngf :
                /\ C9_Chain(gens[i], last)
                /\ gens[i].opt.num_upsampling_layers = "most" =>
                      2 * last = gens[i].opt.ngf

\* C9 amended: as stated, except that the fifth block of mode "most" maps w to
\* w // 2 (the integer quotient, 0.5w only for an even w), and that is the
\* input width of the image convolution.
C9_Channels ==
    \A i \in DOMAIN gens :
        Constructed(gens[i]) =>
            \E last \in 0..gens[i].opt.ngf :
                /\ C9_Chain(gens[i], last)
                /\ gens[i].opt.num_upsampling_layers = "most" =>
                      /\ 2 * last <= gens[i].opt.ngf
                      /\ gens[i].opt.ngf < 2 * last + 2

C9_Witness ==
    \E i \in DOMAIN gens :
        /\ gens[i].fwd.result = "ok"
        /\ gens[i].opt.num_upsampling_layers = "most"
        /\ gens[i].opt.ngf = 3
        /\ gens[i].mods["conv_img"].cin = 1

-----------------------------------------------------------------------------
(* C10: uniform tags *)

UniformTags(g) == AllTagged(g, "Plain") \/ AllTagged(g, "SpectralNormalized")

\* C10: after construction and after any sequence of completed forward and
\* remove_spectral_norm calls, all convolutions of all blocks of a generator
\* carry one tag; forward changes no tag; a Plain convolution never becomes
\* SpectralNormalized again.
C10_UniformTags ==
    /\ [](\A i \in DOMAIN gens : Constructed(gens[i]) => UniformTags(gens[i]))
    /\ [][\A i \in DOMAIN gens :
            Constructed(gens[i]) =>
              /\ gens'[i].nfwd = gens[i].nfwd + 1 => gens'[i].mods = gens[i].mods
              /\ \A n \in OwnedBlocks(gens[i]) : \A c \in DOMAIN gens[i].mods[n].convs :
                    gens[i].mods[n].convs[c].tag = "Plain" =>
                        gens'[i].mods[n].convs[c].tag = "Plain"]_vars

C10_Witness ==
    \E i \in DOMAIN gens :
        /\ Constructed(gens[i]) /\ HasSpectral(gens[i].opt.norm_G)
        /\ gens[i].nrm = 1 /\ gens[i].nfwd = 1
        /\ gens[i].fwd.result = "ok"
        /\ AllTagged(gens[i], "Plain")

=============================================================================
